---- MODULE Spec2Model ----
(***************************************************************************)
(* Quiz generation / scoring / gamification pipeline of the exam-practice  *)
(* application: generateQuizQuestionsFlow and generateQuizAction, the      *)
(* client-side handleQuizSubmit, the ResultItem.isCorrect evaluator,       *)
(* saveQuizHistoryAction with the UserStats read-modify-write, and the     *)
(* history round trip through QuestionSchema and getQuizHistoryAction.     *)
(*                                                                         *)
(* JavaScript values are records [kind, str, num, arr]; strings are        *)
(* sequences of one-character strings so that trim / split / includes are  *)
(* computed; numbers are integers scaled by Scale (three decimals).        *)
(***************************************************************************)
EXTENDS Integers, Sequences, FiniteSets, TLC

\* ------------------------------------------------------------------ bounds
MaxCalls == 2
MaxDay == 2
MaxN == 2
MaxLen == 2

\* ------------------------------------------------------- program constants
Scale == 1000
maxRetries == 5
PointsPerCorrect == 10
PointCollectorThreshold == 1000
StreakBadgeThreshold == 5
NoDate == -10

\* --------------------------------------------------------------- JS values
Str(s) == [kind |-> "string", str |-> s, num |-> 0, arr |-> <<>>]
Num(n) == [kind |-> "number", str |-> <<>>, num |-> n, arr |-> <<>>]
Arr(a) == [kind |-> "array", str |-> <<>>, num |-> 0, arr |-> a]
Undefined == [kind |-> "undefined", str |-> <<>>, num |-> 0, arr |-> <<>>]
Null == [kind |-> "null", str |-> <<>>, num |-> 0, arr |-> <<>>]

NaN == [nan |-> TRUE, val |-> 0]
Finite(n) == [nan |-> FALSE, val |-> n]

Digits == <<"0", "1", "2", "3", "4", "5", "6", "7", "8", "9">>
IsDigit(c) == \E i \in 1..10 : Digits[i] = c
DigitVal(c) == (CHOOSE i \in 1..10 : Digits[i] = c) - 1

RECURSIVE TrimStart(_)
TrimStart(s) == IF s # <<>> /\ Head(s) = " " THEN TrimStart(Tail(s)) ELSE s

RECURSIVE TrimEnd(_)
TrimEnd(s) ==
    IF s # <<>> /\ s[Len(s)] = " " THEN TrimEnd(SubSeq(s, 1, Len(s) - 1)) ELSE s

\* String.prototype.trim
Trim(s) == TrimEnd(TrimStart(s))

\* String.prototype.includes(',')
IncludesComma(s) == \E i \in 1..Len(s) : s[i] = ","

\* String.prototype.split(','), left to right; cur is the segment being read
RECURSIVE SplitFrom(_, _)
SplitFrom(s, cur) ==
    IF s = <<>> THEN <<cur>>
    ELSE IF Head(s) = "," THEN <<cur>> \o SplitFrom(Tail(s), <<>>)
    ELSE SplitFrom(Tail(s), Append(cur, Head(s)))

SplitComma(s) == SplitFrom(s, <<>>)

\* Array.prototype.join(sep)
RECURSIVE Join(_, _)
Join(a, sep) ==
    IF a = <<>> THEN <<>>
    ELSE IF Len(a) = 1 THEN a[1]
    ELSE a[1] \o sep \o Join(Tail(a), sep)

Pow10(k) == IF k = 0 THEN 1 ELSE IF k = 1 THEN 10 ELSE IF k = 2 THEN 100 ELSE 1000

RECURSIVE DigitsValue(_, _)
DigitsValue(s, acc) ==
    IF s = <<>> THEN acc ELSE DigitsValue(Tail(s), acc * 10 + DigitVal(Head(s)))

AllDigits(s) == \A i \in 1..Len(s) : IsDigit(s[i])

\* The StringToNumber grammar for unsigned/signed decimals of up to three
\* fraction digits: "", "12", "12.", ".5", "12.345", "-3"; anything else NaN.
ParseUnsigned(s) ==
    LET dots == {i \in 1..Len(s) : s[i] = "."} IN
    IF Cardinality(dots) = 0
    THEN IF AllDigits(s) /\ s # <<>> THEN Finite(DigitsValue(s, 0) * Scale) ELSE NaN
    ELSE IF Cardinality(dots) > 1 THEN NaN
    ELSE LET d == CHOOSE i \in dots : TRUE
             ip == SubSeq(s, 1, d - 1)
             fp == SubSeq(s, d + 1, Len(s))
         IN IF AllDigits(ip) /\ AllDigits(fp) /\ Len(ip) + Len(fp) > 0 /\ Len(fp) <= 3
            THEN Finite(DigitsValue(ip, 0) * Scale + DigitsValue(fp, 0) * Pow10(3 - Len(fp)))
            ELSE NaN

StringToNumber(s) ==
    LET t == Trim(s) IN
    IF t = <<>> THEN Finite(0)
    ELSE IF Head(t) = "-"
         THEN LET r == ParseUnsigned(Tail(t)) IN
              IF r.nan THEN NaN ELSE Finite(0 - r.val)
         ELSE ParseUnsigned(t)

\* Number(x): numbers map to themselves, strings are parsed, an array is
\* converted through its string form (elements joined by ","), null is 0,
\* undefined is NaN
ToNumber(v) ==
    IF v.kind = "number" THEN Finite(v.num)
    ELSE IF v.kind = "string" THEN StringToNumber(v.str)
    ELSE IF v.kind = "array" THEN StringToNumber(Join(v.arr, <<",">>))
    ELSE IF v.kind = "null" THEN Finite(0)
    ELSE NaN

\* Number.prototype.toString for the three-decimal numbers used here
RECURSIVE DigitsOf(_)
DigitsOf(k) ==
    IF k < 10 THEN <<Digits[k + 1]>>
    ELSE Append(DigitsOf(k \div 10), Digits[(k % 10) + 1])

FractionOf(f) ==
    IF f = 0 THEN <<>>
    ELSE IF f % 100 = 0 THEN <<".">> \o DigitsOf(f \div 100)
    ELSE IF f % 10 = 0
         THEN <<".", Digits[(f \div 100) + 1]>> \o DigitsOf((f \div 10) % 10)
    ELSE <<".", Digits[(f \div 100) + 1], Digits[((f \div 10) % 10) + 1],
           Digits[(f % 10) + 1]>>

NumberToString(n) ==
    LET a == IF n < 0 THEN 0 - n ELSE n IN
    (IF n < 0 THEN <<"-">> ELSE <<>>) \o DigitsOf(a \div Scale) \o FractionOf(a % Scale)

\* String(x)
JsString(v) ==
    IF v.kind = "string" THEN v.str
    ELSE IF v.kind = "number" THEN NumberToString(v.num)
    ELSE IF v.kind = "array" THEN Join(v.arr, <<",">>)
    ELSE IF v.kind = "null" THEN <<"n", "u", "l", "l">>
    ELSE <<"u", "n", "d", "e", "f", "i", "n", "e", "d">>

\* x === y for the value kinds used here; two arrays are distinct objects
StrictEquals(x, y) ==
    /\ x.kind = y.kind
    /\ x.kind # "array"
    /\ x.str = y.str
    /\ x.num = y.num

MapTrim(a) == [i \in 1..Len(a) |-> Trim(a[i])]
SeqIncludes(a, x) == \E i \in 1..Len(a) : a[i] = x
Every(a, b) == \A i \in 1..Len(a) : SeqIncludes(b, a[i])

\* ------------------------------------------------------------ questions
Tolerance == 10

Question(text, type, options, correct, hasRange, min, max) ==
    [question |-> text, type |-> type, options |-> options,
     correctAnswer |-> correct, hasRange |-> hasRange,
     numericRange |-> [min |-> min, max |-> max]]

\* MSQ operand conversion: an array maps String(a).trim() over its elements,
\* a string is split at commas when it has one, anything else is rejected
MsqConvertible(v) == v.kind \in {"array", "string"}
MsqArray_NoTrimAfterSplit(v) ==
    IF v.kind = "array" THEN MapTrim(v.arr)
    ELSE IF IncludesComma(v.str) THEN SplitComma(v.str)
    ELSE <<Trim(v.str)>>

MsqArray(v) ==
    IF v.kind = "array" THEN MapTrim(v.arr)
    ELSE IF IncludesComma(v.str) THEN MapTrim(SplitComma(v.str))
    ELSE <<Trim(v.str)>>

isCorrectMCQ(question, userAnswer) ==
    IF userAnswer.kind = "string" /\ question.correctAnswer.kind = "string"
    THEN Trim(userAnswer.str) = Trim(question.correctAnswer.str)
    ELSE FALSE

isCorrectMSQ_UserHasAllOnly(question, userAnswer) ==
    IF ~MsqConvertible(userAnswer) THEN FALSE
    ELSE IF ~MsqConvertible(question.correctAnswer) THEN FALSE
    ELSE Every(MsqArray(userAnswer), MsqArray(question.correctAnswer))

isCorrectMSQ(question, userAnswer) ==
    IF ~MsqConvertible(userAnswer) THEN FALSE
    ELSE IF ~MsqConvertible(question.correctAnswer) THEN FALSE
    ELSE LET userArray == MsqArray(userAnswer)
             correctArray == MsqArray(question.correctAnswer)
             lengthMatch == Len(userArray) = Len(correctArray)
             userHasAll == Every(userArray, correctArray)
             correctHasAll == Every(correctArray, userArray)
         IN lengthMatch /\ userHasAll /\ correctHasAll

isCorrectNTQ_ExclusiveMax(question, userAnswer) ==
    LET userNum == ToNumber(userAnswer)
        correctNum == ToNumber(question.correctAnswer)
    IN IF ~userNum.nan /\ ~correctNum.nan
       THEN LET range == IF question.hasRange THEN question.numericRange
                         ELSE [min |-> correctNum.val - Tolerance,
                               max |-> correctNum.val + Tolerance]
            IN userNum.val >= range.min /\ userNum.val < range.max
       ELSE FALSE

isCorrectNTQ_IgnoresRange(question, userAnswer) ==
    LET userNum == ToNumber(userAnswer)
        correctNum == ToNumber(question.correctAnswer)
    IN IF ~userNum.nan /\ ~correctNum.nan
       THEN /\ userNum.val >= correctNum.val - Tolerance
            /\ userNum.val <= correctNum.val + Tolerance
       ELSE FALSE

isCorrectNTQ(question, userAnswer) ==
    LET userNum == ToNumber(userAnswer)
        correctNum == ToNumber(question.correctAnswer)
    IN IF ~userNum.nan /\ ~correctNum.nan
       THEN LET range == IF question.hasRange THEN question.numericRange
                         ELSE [min |-> correctNum.val - Tolerance,
                               max |-> correctNum.val + Tolerance]
            IN userNum.val >= range.min /\ userNum.val <= range.max
       ELSE FALSE

isCorrect_NoUnansweredCheck(question, userAnswer) ==
    IF question.type = "MCQ" THEN isCorrectMCQ(question, userAnswer)
    ELSE IF question.type = "MSQ" THEN isCorrectMSQ(question, userAnswer)
    ELSE IF question.type = "NTQ" THEN isCorrectNTQ(question, userAnswer)
    ELSE FALSE

\* ResultItem.isCorrect
isCorrect(question, userAnswer) ==
    IF userAnswer.kind \in {"undefined", "null"} THEN FALSE
    ELSE IF question.type = "MCQ" THEN isCorrectMCQ(question, userAnswer)
    ELSE IF question.type = "MSQ" THEN isCorrectMSQ(question, userAnswer)
    ELSE IF question.type = "NTQ" THEN isCorrectNTQ(question, userAnswer)
    ELSE FALSE

\* answers[index] of an index-keyed answer record: undefined past the end
AnswerAt(answers, i) == IF i \in 1..Len(answers) THEN answers[i] ELSE Undefined

\* the number of questions the AnswerEvaluator judges correct
EvaluatorScore(questions, answers) ==
    Cardinality({i \in 1..Len(questions) : isCorrect(questions[i], AnswerAt(answers, i))})

\* handleQuizSubmit: correctCount counts q.correctAnswer === answers[index]
correctCount(questions, answers) ==
    Cardinality({i \in 1..Len(questions) :
                    StrictEquals(questions[i].correctAnswer, AnswerAt(answers, i))})

\* -------------------------------------------------- question / answer pools
QMcq == Question("q-mcq", "MCQ", <<<<"A">>, <<"B">>>>, Str(<<"A">>), FALSE, 0, 0)
QMsq == Question("q-msq", "MSQ", <<<<"A">>, <<"B">>>>, Arr(<<<<"A">>, <<"B">>>>), FALSE, 0, 0)
QNtq == Question("q-ntq", "NTQ", <<>>, Num(10 * Scale), FALSE, 0, 0)
QNtqRange == Question("q-ntq-range", "NTQ", <<>>, Num(10 * Scale), TRUE, 9 * Scale, 11 * Scale)

\* completed attempts (questions with the answers given to them)
Attempt(questions, answers) == [questions |-> questions, userAnswers |-> answers]

AttemptPool ==
    { Attempt(<<QMcq, QMsq, QNtq>>,
              <<Str(<<"A">>), Arr(<<<<"A">>>>), Num(10 * Scale + 5)>>),
      Attempt(<<QMcq, QMsq, QNtq>>,
              <<Str(<<"A">>), Arr(<<<<"B">>, <<"A">>>>), Num(10 * Scale)>>),
      Attempt(<<QMcq, QNtqRange>>,
              <<Str(<<"B">>), Str(<<"1", "0", ".", "5">>)>>),
      Attempt(<<QMcq, QMsq>>,
              <<Str(<<" ", "A">>), Undefined>>) }

\* the attempts posted directly to the server action
RequestAttempts ==
    { Attempt(<<QMcq, QMsq>>, <<Str(<<" ", "A">>), Undefined>>) }

\* ------------------------------------------------------------------ state
MaxScore == 2

Calls == 1..MaxCalls
Days == 0..MaxDay
ScoreInputs == 0..MaxScore

VARIABLES
    clock,        \* the server's calendar day (new Date() at day granularity)
    userStats,    \* the persisted UserStats document of the user
    stats0,       \* the UserStats document the run started from
    quizHistory,  \* persisted QuizHistory documents, by the call that saved them
    pc,           \* position of each saveQuizHistoryAction call
    quizData,     \* the quizData argument of each call
    stats,        \* the stats document each call holds between findOne and save
    result,       \* the value each call returned
    step,         \* GateAiPrep state: "quiz" | "results"
    score,        \* GateAiPrep state: setScore(correctCount)
    historyId,    \* GateAiPrep state: setHistoryId(...), 0 for null
    session,      \* the client's current submission and effect bookkeeping
    analysis,     \* analyzePerformanceAction invocations, by <<target, submission>>
    gen,          \* generateQuizAction / generateQuizQuestionsFlow
    ev            \* one attempt shown through ResultItem, directly or from history

vars == <<clock, userStats, stats0, quizHistory, pc, quizData, stats, result,
          step, score, historyId, session, analysis, gen, ev>>

serverVars == <<clock, userStats, stats0, quizHistory, pc, quizData, stats, result>>
clientVars == <<step, score, historyId, session, analysis>>

\* new UserStats({ userEmail }): the schema defaults
NewStats ==
    [exists |-> FALSE, points |-> 0, badges |-> <<>>, currentStreak |-> 0,
     longestStreak |-> 0, lastQuizDate |-> NoDate]

StatsDoc(points, badges, cur, longest, last) ==
    [exists |-> TRUE, points |-> points, badges |-> badges, currentStreak |-> cur,
     longestStreak |-> longest, lastQuizDate |-> last]

\* UserStats documents a run may start from: no document (new user), and a
\* user one day short of the streak badge and just below the points threshold
InitStats ==
    { NewStats,
      StatsDoc(990, <<>>, 4, 4, 0) }

NoQuizData == [questions |-> <<>>, userAnswers |-> <<>>, score |-> 0, viaUI |-> FALSE]
NoResult == [success |-> FALSE, historyId |-> 0]
NoCounts == [conceptual |-> 0, careless |-> 0, misinterpretation |-> 0]
NoHistory ==
    [exists |-> FALSE, questions |-> <<>>, userAnswers |-> <<>>, score |-> 0,
     errorTypes |-> <<>>, analysed |-> FALSE, errorTypeCounts |-> NoCounts]
NoLocal == [isNew |-> FALSE, today |-> 0, read |-> NewStats, doc |-> NewStats]
NoAnalysis == [status |-> "none", data |-> <<>>]
NoSession == [call |-> 0, submitted |-> 0, effectFor |-> 0, retry |-> FALSE]
GenIdle ==
    [pc |-> "idle", numberOfQuestions |-> 0, attempt |-> 0, invocations |-> 0,
     lastCount |-> 0, output |-> <<>>, error |-> "none", action |-> "none",
     mcqQuestions |-> <<>>, response |-> <<>>,
     previouslyAskedQuestions |-> {},
     thrown |-> [message |-> <<>>, cause |-> "none"], returnedError |-> <<>>]

\* no attempt is shown
EvIdle ==
    [pc |-> "idle", path |-> "none", viaUI |-> FALSE,
     rawQuestions |-> <<>>, rawAnswers |-> <<>>,
     questions |-> <<>>, userAnswers |-> <<>>, verdicts |-> <<>>]

Init ==
    /\ ev = EvIdle
    /\ clock = 0
    /\ userStats \in InitStats
    /\ stats0 = userStats
    /\ quizHistory = [c \in Calls |-> NoHistory]
    /\ pc = [c \in Calls |-> "idle"]
    /\ quizData = [c \in Calls |-> NoQuizData]
    /\ stats = [c \in Calls |-> NoLocal]
    /\ result = [c \in Calls |-> NoResult]
    /\ step = "quiz"
    /\ score = 0
    /\ historyId = 0
    /\ session = NoSession
    /\ analysis = [i \in Calls \X Calls |-> NoAnalysis]
    /\ gen = GenIdle

\* time passes on the server
Tick ==
    /\ clock < MaxDay
    /\ clock' = clock + 1
    /\ UNCHANGED <<userStats, stats0, quizHistory, pc, quizData, stats, result,
                   clientVars, gen, ev>>

\* ------------------------------------------------- saveQuizHistoryAction
\* date-fns at calendar-day granularity
subDays(date, amount) == date - amount
isSameDay(dateLeft, dateRight) == dateLeft = dateRight

\* normalizedUserAnswers: an array is kept; an index-keyed object is replaced
\* by the values of the keys it has, in key order
normalizedUserAnswers(data) ==
    IF data.viaUI
    THEN SelectSeq(data.userAnswers, LAMBDA a : a.kind # "undefined")
    ELSE data.userAnswers

pointsEarned_Unscaled(data) == data.score

pointsEarned(data) == data.score * PointsPerCorrect

StreakAfter_NoReset(doc, today) ==
    IF doc.lastQuizDate # NoDate
    THEN IF ~isSameDay(doc.lastQuizDate, today) THEN doc.currentStreak + 1
         ELSE doc.currentStreak
    ELSE 1

StreakAfter(doc, today) ==
    IF doc.lastQuizDate # NoDate
    THEN LET yesterday == subDays(today, 1) IN
         IF isSameDay(doc.lastQuizDate, yesterday) THEN doc.currentStreak + 1
         ELSE IF ~isSameDay(doc.lastQuizDate, today) THEN 1
         ELSE doc.currentStreak
    ELSE 1

LongestAfter_Stale(longest, cur) == longest

LongestAfter(longest, cur) == IF cur > longest THEN cur ELSE longest

BadgesAfter_NoIncludesCheck(badges, points, cur) ==
    LET b1 == IF points > PointCollectorThreshold
              THEN Append(badges, "Point Collector") ELSE badges
    IN IF cur >= StreakBadgeThreshold THEN Append(b1, "5-Day Streak") ELSE b1

BadgesAfter(badges, points, cur) ==
    LET b1 == IF points > PointCollectorThreshold /\ ~SeqIncludes(badges, "Point Collector")
              THEN Append(badges, "Point Collector") ELSE badges
    IN IF cur >= StreakBadgeThreshold /\ ~SeqIncludes(b1, "5-Day Streak")
       THEN Append(b1, "5-Day Streak") ELSE b1

\* the synchronous block between findOne and stats.save(): points, streak,
\* longest streak and badges, computed on the document findOne returned
UpdateGamification(doc, data, today) ==
    LET points == doc.points + pointsEarned(data)
        cur == StreakAfter(doc, today)
    IN [exists |-> TRUE,
        points |-> points,
        badges |-> BadgesAfter(doc.badges, points, cur),
        currentStreak |-> cur,
        longestStreak |-> LongestAfter(doc.longestStreak, cur),
        lastQuizDate |-> today]

\* stats.save(): a new document is inserted whole; an existing one is updated
\* with the paths the handler changed ($set) and the badges it pushed ($push)
Pushed(local) ==
    SubSeq(local.doc.badges, Len(local.read.badges) + 1, Len(local.doc.badges))

Persisted(db, local) ==
    IF local.isNew THEN local.doc
    ELSE [exists |-> TRUE,
          points |-> IF local.doc.points # local.read.points
                     THEN local.doc.points ELSE db.points,
          badges |-> db.badges \o Pushed(local),
          currentStreak |-> IF local.doc.currentStreak # local.read.currentStreak
                            THEN local.doc.currentStreak ELSE db.currentStreak,
          longestStreak |-> IF local.doc.longestStreak # local.read.longestStreak
                            THEN local.doc.longestStreak ELSE db.longestStreak,
          lastQuizDate |-> IF local.doc.lastQuizDate # local.read.lastQuizDate
                           THEN local.doc.lastQuizDate ELSE db.lastQuizDate]

\* the correctAnswer setter of QuestionSchema: an array is joined with ', '
correctAnswerSetter(v) ==
    IF v.kind = "array" THEN Str(Join(v.arr, <<",", " ">>)) ELSE v

\* a question cast to QuestionSchema: the schema has no type and no
\* numericRange path, so the stored subdocument has neither
PersistedQuestion(q) ==
    [question |-> q.question, type |-> "undefined", options |-> q.options,
     correctAnswer |-> correctAnswerSetter(q.correctAnswer), hasRange |-> FALSE,
     numericRange |-> [min |-> 0, max |-> 0]]

\* the document new QuizHistory(quizToSave).save() writes; errorType takes
\* its schema default
PersistedQuiz(data) ==
    [exists |-> TRUE,
     questions |-> [i \in 1..Len(data.questions) |->
                      PersistedQuestion(data.questions[i])],
     userAnswers |-> normalizedUserAnswers(data),
     score |-> data.score,
     errorTypes |-> [i \in 1..Len(data.questions) |-> "Correct"],
     analysed |-> FALSE,
     errorTypeCounts |-> NoCounts]

RequestData(attempt, clientScore) ==
    [questions |-> attempt.questions, userAnswers |-> attempt.userAnswers,
     score |-> clientScore, viaUI |-> FALSE]

\* a client posts the server action with a quizData of its own making; the
\* call runs dbConnect and the QuizHistory save
SaveQuizHistoryRequest(c, attempt, clientScore) ==
    /\ pc[c] = "idle"
    /\ quizData' = [quizData EXCEPT ![c] = RequestData(attempt, clientScore)]
    /\ quizHistory' = [quizHistory EXCEPT ![c] =
                          PersistedQuiz(RequestData(attempt, clientScore))]
    /\ pc' = [pc EXCEPT ![c] = "findOne"]
    /\ UNCHANGED <<clock, userStats, stats0, stats, result, clientVars, gen, ev>>

\* the same call when dbConnect or the QuizHistory save rejects
SaveQuizHistoryRequestFails(c, attempt, clientScore) ==
    /\ pc[c] = "idle"
    /\ quizData' = [quizData EXCEPT ![c] = RequestData(attempt, clientScore)]
    /\ result' = [result EXCEPT ![c] = [success |-> FALSE, historyId |-> 0]]
    /\ pc' = [pc EXCEPT ![c] = "returned"]
    /\ UNCHANGED <<clock, userStats, stats0, quizHistory, stats, clientVars, gen, ev>>

\* newQuizHistory.save() resolves for a call the client component started
QuizHistorySave(c) ==
    /\ pc[c] = "quizSave"
    /\ quizHistory' = [quizHistory EXCEPT ![c] = PersistedQuiz(quizData[c])]
    /\ pc' = [pc EXCEPT ![c] = "findOne"]
    /\ UNCHANGED <<clock, userStats, stats0, quizData, stats, result, clientVars, gen, ev>>

\* UserStats.findOne resolves; the handler runs up to stats.save()
FindOneStats(c) ==
    /\ pc[c] = "findOne"
    /\ stats' = [stats EXCEPT ![c] =
                    [isNew |-> ~userStats.exists,
                     today |-> clock,
                     read |-> userStats,
                     doc |-> UpdateGamification(userStats, quizData[c], clock)]]
    /\ pc' = [pc EXCEPT ![c] = "statsSave"]
    /\ UNCHANGED <<clock, userStats, stats0, quizHistory, quizData, result,
                   clientVars, gen, ev>>

\* stats.save() resolves and the action returns the history id; inserting a
\* second document for the same userEmail violates the unique index
StatsSave(c) ==
    /\ pc[c] = "statsSave"
    /\ stats[c].isNew => ~userStats.exists
    /\ userStats' = Persisted(userStats, stats[c])
    /\ result' = [result EXCEPT ![c] = [success |-> TRUE, historyId |-> c]]
    /\ pc' = [pc EXCEPT ![c] = "returned"]
    /\ UNCHANGED <<clock, stats0, quizHistory, quizData, stats, clientVars, gen, ev>>

\* dbConnect or a persistence call rejects: the catch block returns failure
ServerThrow(c) ==
    /\ pc[c] \in {"quizSave", "findOne", "statsSave"}
    /\ result' = [result EXCEPT ![c] = [success |-> FALSE, historyId |-> 0]]
    /\ pc' = [pc EXCEPT ![c] = "returned"]
    /\ UNCHANGED <<clock, userStats, stats0, quizHistory, quizData, stats,
                   clientVars, gen, ev>>

\* concurrent requests to the server action
Next ==
    \/ Tick
    \/ \E c \in Calls, attempt \in RequestAttempts, clientScore \in ScoreInputs :
          SaveQuizHistoryRequest(c, attempt, clientScore)
    \/ \E c \in Calls, attempt \in RequestAttempts, clientScore \in ScoreInputs :
          SaveQuizHistoryRequestFails(c, attempt, clientScore)
    \/ \E c \in Calls : FindOneStats(c)
    \/ \E c \in Calls : StatsSave(c)
    \/ \E c \in Calls : ServerThrow(c)

Spec == Init /\ [][Next]_vars

\* requests that arrive one after the other: a call starts when no other runs
Quiet == \A c \in Calls : pc[c] \in {"idle", "returned"}

NextSeq ==
    \/ Tick
    \/ \E c \in Calls, attempt \in RequestAttempts, clientScore \in ScoreInputs :
          Quiet /\ SaveQuizHistoryRequest(c, attempt, clientScore)
    \/ \E c \in Calls, attempt \in RequestAttempts, clientScore \in ScoreInputs :
          Quiet /\ SaveQuizHistoryRequestFails(c, attempt, clientScore)
    \/ \E c \in Calls : FindOneStats(c)
    \/ \E c \in Calls : StatsSave(c)
    \/ \E c \in Calls : ServerThrow(c)

SpecSeq == Init /\ [][NextSeq]_vars

\* ------------------------------------------------- GateAiPrep (client)
ErrorTypes == {"Conceptual", "Careless Slip", "Question Misinterpretation"}

\* handleQuizStart: a generated quiz begins
HandleQuizStart ==
    /\ step = "config"
    /\ step' = "quiz"
    /\ score' = 0
    /\ historyId' = 0
    /\ session' = [session EXCEPT !.retry = FALSE]
    /\ UNCHANGED <<serverVars, analysis, gen, ev>>

\* handleQuizSubmit: counts the correct answers, shows the results and calls
\* addQuizToHistory, which posts saveQuizHistoryAction with that score; after
\* handleTryAgain the questions are those of the previous submission
HandleQuizSubmit(attempt) ==
    LET c == session.submitted + 1 IN
    /\ step = "quiz"
    /\ c \in Calls
    /\ session.retry => attempt.questions = quizData[session.call].questions
    /\ score' = correctCount(attempt.questions, attempt.userAnswers)
    /\ step' = "results"
    /\ quizData' = [quizData EXCEPT ![c] =
                       [questions |-> attempt.questions,
                        userAnswers |-> attempt.userAnswers,
                        score |-> correctCount(attempt.questions, attempt.userAnswers),
                        viaUI |-> TRUE]]
    /\ pc' = [pc EXCEPT ![c] = "quizSave"]
    /\ session' = [call |-> c, submitted |-> c, effectFor |-> 0, retry |-> FALSE]
    /\ UNCHANGED <<clock, userStats, stats0, quizHistory, stats, result,
                   historyId, analysis, gen, ev>>

\* the rest of handleQuizSubmit once addQuizToHistory resolves
AddQuizToHistoryReturn(c) ==
    /\ pc[c] = "returned"
    /\ quizData[c].viaUI
    /\ pc' = [pc EXCEPT ![c] = "done"]
    /\ historyId' = IF result[c].success THEN result[c].historyId ELSE historyId
    /\ UNCHANGED <<clock, userStats, stats0, quizHistory, quizData, stats, result,
                   step, score, session, analysis, gen, ev>>

\* handleTryAgain: the same quiz again; historyId is left as it is
HandleTryAgain ==
    /\ step = "results"
    /\ step' = "quiz"
    /\ score' = 0
    /\ session' = [session EXCEPT !.retry = TRUE]
    /\ UNCHANGED <<serverVars, historyId, analysis, gen, ev>>

\* handleRestart: back to the configuration form
HandleRestart ==
    /\ step = "results"
    /\ step' = "config"
    /\ historyId' = 0
    /\ session' = [session EXCEPT !.retry = FALSE]
    /\ UNCHANGED <<serverVars, score, analysis, gen, ev>>

\* the payload the QuizResults effect builds from the shown questions/answers
quizResults(data) ==
    [i \in 1..Len(data.questions) |->
        [question |-> data.questions[i].question,
         correctAnswer |-> data.questions[i].correctAnswer,
         isCorrect |-> StrictEquals(data.questions[i].correctAnswer,
                                    AnswerAt(data.userAnswers, i))]]

\* QuizResults effect: runs when the results are shown with a history id and
\* when historyId changes; it posts analyzePerformanceAction(payload, historyId)
AnalyzeEffect ==
    /\ step = "results"
    /\ historyId # 0
    /\ session.effectFor # historyId
    /\ analysis[<<historyId, session.call>>].status = "none"
    /\ analysis' = [analysis EXCEPT ![<<historyId, session.call>>].status = "invoked"]
    /\ session' = [session EXCEPT !.effectFor = historyId]
    /\ UNCHANGED <<serverVars, step, score, historyId, gen, ev>>

\* responses of the analysis capability to a payload: no entry, an entry for
\* the first question only, an entry for every question
AnalysisOutputs(qr) ==
    {<<>>}
      \cup {[i \in 1..1 |-> [question |-> qr[1].question, errorType |-> "Careless Slip"]] :
               x \in IF qr = <<>> THEN {} ELSE {1}}
      \cup {[i \in 1..Len(qr) |-> [question |-> qr[i].question, errorType |-> t]] :
               t \in {"Conceptual", "Question Misinterpretation"}}

\* output.errorAnalysis.find(ea => ea.question === qr.question)
FindAnalysis(errorAnalysis, text) ==
    LET hits == {i \in 1..Len(errorAnalysis) : errorAnalysis[i].question = text} IN
    IF hits = {} THEN "undefined"
    ELSE errorAnalysis[CHOOSE i \in hits : \A j \in hits : i <= j].errorType

\* errorType of one updated question, before the schema casts it
MergedErrorType(qr, errorAnalysis) ==
    IF qr.isCorrect THEN "Correct" ELSE FindAnalysis(errorAnalysis, qr.question)

\* errorTypeCounts: only incorrect questions with an analysis entry count
CountOf_CorrectToo(qrs, errorAnalysis, t) ==
    Cardinality({i \in 1..Len(qrs) :
                    FindAnalysis(errorAnalysis, qrs[i].question) = t})

CountOf(qrs, errorAnalysis, t) ==
    Cardinality({i \in 1..Len(qrs) :
                    ~qrs[i].isCorrect /\ FindAnalysis(errorAnalysis, qrs[i].question) = t})

\* QuestionSchema.errorType: a missing value takes the default 'Correct'
SchemaErrorType(t) == IF t = "undefined" THEN "Correct" ELSE t

\* an item of updatedQuestions ({...qr, errorType}) cast to QuestionSchema:
\* the payload items have no options, and type and numericRange are not
\* schema paths
UpdatedQuestion(qr) ==
    [question |-> qr.question, type |-> "undefined", options |-> <<>>,
     correctAnswer |-> correctAnswerSetter(qr.correctAnswer), hasRange |-> FALSE,
     numericRange |-> [min |-> 0, max |-> 0]]

\* analyzePerformanceAction when the capability answers: the merge,
\* QuizHistory.findByIdAndUpdate(historyId, {$set: ...}) and the returned
\* { success: true, data: output }
AnalyzeReturns(target, sub, errorAnalysis) ==
    /\ analysis[<<target, sub>>].status = "invoked"
    /\ analysis' = [analysis EXCEPT ![<<target, sub>>] =
                        [status |-> "saved", data |-> errorAnalysis]]
    /\ quizHistory' =
          IF quizHistory[target].exists
          THEN [quizHistory EXCEPT ![target] =
                  [@ EXCEPT
                     !.questions =
                        [i \in 1..Len(quizData[sub].questions) |->
                           UpdatedQuestion(quizResults(quizData[sub])[i])],
                     !.errorTypes =
                        [i \in 1..Len(quizData[sub].questions) |->
                           SchemaErrorType(MergedErrorType(quizResults(quizData[sub])[i],
                                                           errorAnalysis))],
                     !.analysed = TRUE,
                     !.errorTypeCounts =
                        [conceptual |-> CountOf(quizResults(quizData[sub]), errorAnalysis,
                                                "Conceptual"),
                         careless |-> CountOf(quizResults(quizData[sub]), errorAnalysis,
                                              "Careless Slip"),
                         misinterpretation |->
                            CountOf(quizResults(quizData[sub]), errorAnalysis,
                                    "Question Misinterpretation")]]]
          ELSE quizHistory
    /\ UNCHANGED <<clock, userStats, stats0, pc, quizData, stats, result,
                   step, score, historyId, session, gen, ev>>

\* analyzePerformanceAction when the capability or the update rejects
AnalyzeThrows(target, sub) ==
    /\ analysis[<<target, sub>>].status = "invoked"
    /\ analysis' = [analysis EXCEPT ![<<target, sub>>].status = "failed"]
    /\ UNCHANGED <<serverVars, step, score, historyId, session, gen, ev>>

InitClient ==
    /\ Init
    /\ step = "quiz"

\* one signed-in client working through quizzes
NextClient ==
    \/ HandleQuizStart
    \/ \E attempt \in AttemptPool : HandleQuizSubmit(attempt)
    \/ \E c \in Calls : QuizHistorySave(c)
    \/ \E c \in Calls : FindOneStats(c)
    \/ \E c \in Calls : StatsSave(c)
    \/ \E c \in Calls : ServerThrow(c)
    \/ \E c \in Calls : AddQuizToHistoryReturn(c)
    \/ HandleTryAgain
    \/ HandleRestart
    \/ AnalyzeEffect
    \/ \E target \in Calls, sub \in Calls :
          \E errorAnalysis \in AnalysisOutputs(quizResults(quizData[sub])) :
             AnalyzeReturns(target, sub, errorAnalysis)
    \/ \E target \in Calls, sub \in Calls : AnalyzeThrows(target, sub)

SpecClient == InitClient /\ [][NextClient]_vars

\* ------------------------------- generateQuizAction / generateQuizQuestionsFlow
\* questions the generation capability may put in a response
QMcqThree ==
    Question("q-mcq-3", "MCQ", <<<<"A">>, <<"B">>, <<"B">>>>, Str(<<"B">>), FALSE, 0, 0)

GenPool == {QMcq, QMsq, QNtq, QMcqThree}

\* response.output of one prompt call: no output, or a list of questions
NoOutput == [present |-> FALSE, questions |-> <<>>]
Output(qs) == [present |-> TRUE, questions |-> qs]

SeqsUpTo(S, n) == UNION {[1..k -> S] : k \in 0..n}
PromptResponses == {NoOutput} \cup {Output(qs) : qs \in SeqsUpTo(GenPool, MaxN + 1)}

\* response.output?.questions?.length, -1 for undefined
CountOfResponse(response) ==
    IF response.present THEN Len(response.questions) ELSE -1

Swap_Overwrite(array, i, j) == [array EXCEPT ![i] = array[j]]

Swap(array, i, j) == [array EXCEPT ![i] = array[j], ![j] = array[i]]

\* shuffleArray: every array the loop can return, j drawn from 0..i at each i
RECURSIVE ShuffleFrom(_, _)
ShuffleFrom(array, i) ==
    IF i < 2 THEN {array}
    ELSE UNION {ShuffleFrom(Swap(array, i, j), i - 1) : j \in 1..i}

shuffleArray(array) == ShuffleFrom(array, Len(array))

\* processedQuestions: the options of MCQ / MSQ questions are shuffled
ProcessedQuestion(q) ==
    IF q.type \in {"MCQ", "MSQ"}
    THEN {[q EXCEPT !.options = o] : o \in shuffleArray(q.options)}
    ELSE {q}

processedQuestions(qs) ==
    {ps \in [1..Len(qs) -> UNION {ProcessedQuestion(qs[i]) : i \in 1..Len(qs)}] :
        \A i \in 1..Len(qs) : ps[i] \in ProcessedQuestion(qs[i])}

\* convertedOutput.mcqQuestions of generateQuizAction
convertedOutput_OnlyWithOptions(questions) ==
    SelectSeq(questions, LAMBDA q : q.options # <<>>)

convertedOutput(questions) ==
    [i \in 1..Len(questions) |->
        [question |-> questions[i].question,
         options |-> questions[i].options,
         correctAnswer |-> questions[i].correctAnswer,
         type |-> questions[i].type,
         hasRange |-> questions[i].hasRange,
         numericRange |-> questions[i].numericRange]]

\* the loop condition attempt <= maxRetries, for the next attempt
MayRetry_OneMore(attempt) == attempt + 1 <= maxRetries + 1

MayRetry(attempt) == attempt + 1 <= maxRetries

\* message tokens: fixed text and interpolated numbers
Text(t) == [text |-> t, num |-> 0]
Number(n) == [text |-> "", num |-> n]

\* the Error the flow throws after the loop
FailedMessage(n) ==
    <<Text("Failed to generate "), Number(n),
      Text(" questions. Please try modifying your syllabus topics.")>>

GenerationFailedError(n) == [message |-> FailedMessage(n), cause |-> "none"]

\* errors a rejected prompt call carries
TransportError(error) ==
    IF error = "connectFailed"
    THEN [message |-> <<Text("fetch failed")>>, cause |-> "UND_ERR_CONNECT_FAILED"]
    ELSE IF error = "modelNotFound"
    THEN [message |-> <<Text("model is not found")>>, cause |-> "none"]
    ELSE IF error = "noMessage"
    THEN [message |-> <<>>, cause |-> "none"]
    ELSE [message |-> <<Text("service unavailable")>>, cause |-> "none"]

\* getPreviouslyAskedQuestions: the distinct question texts of the user's
\* QuizHistory documents
previouslyAskedQuestions ==
    UNION {{quizHistory[c].questions[i].question :
                i \in 1..Len(quizHistory[c].questions)} :
           c \in {d \in Calls : quizHistory[d].exists}}

\* generateQuizAction is called: the flow reads the history and enters the loop
GenerateQuizAction(n) ==
    /\ gen.pc = "idle"
    /\ gen' = [gen EXCEPT !.pc = "prompt", !.numberOfQuestions = n, !.attempt = 1,
                          !.previouslyAskedQuestions = previouslyAskedQuestions]
    /\ UNCHANGED <<serverVars, clientVars, ev>>

\* one prompt call resolves with a response of the right length: the flow
\* leaves the loop, shuffles the options and returns
PromptMatches(response, processed) ==
    /\ gen.pc = "prompt"
    /\ CountOfResponse(response) = gen.numberOfQuestions
    /\ processed \in processedQuestions(response.questions)
    /\ gen' = [gen EXCEPT !.pc = "flowReturned",
                          !.invocations = @ + 1,
                          !.lastCount = CountOfResponse(response),
                          !.response = response.questions,
                          !.output = processed]
    /\ UNCHANGED <<serverVars, clientVars, ev>>

\* one prompt call resolves with any other response: next attempt, or after
\* the last attempt the flow throws its Error
PromptMismatches(response) ==
    /\ gen.pc = "prompt"
    /\ CountOfResponse(response) # gen.numberOfQuestions
    /\ gen' = IF MayRetry(gen.attempt)
              THEN [gen EXCEPT !.attempt = @ + 1,
                               !.invocations = @ + 1,
                               !.lastCount = CountOfResponse(response)]
              ELSE [gen EXCEPT !.pc = "flowThrew",
                               !.invocations = @ + 1,
                               !.lastCount = CountOfResponse(response),
                               !.error = "GenerationFailed",
                               !.thrown = GenerationFailedError(gen.numberOfQuestions)]
    /\ UNCHANGED <<serverVars, clientVars, ev>>

\* one prompt call rejects: the error leaves the loop and the flow
TransportErrors == {"connectFailed", "modelNotFound", "noMessage", "other"}

PromptThrows_Retries(error) ==
    /\ gen.pc = "prompt"
    /\ gen' = IF MayRetry(gen.attempt)
              THEN [gen EXCEPT !.attempt = @ + 1,
                               !.invocations = @ + 1,
                               !.error = error]
              ELSE [gen EXCEPT !.pc = "flowThrew",
                               !.invocations = @ + 1,
                               !.error = error,
                               !.thrown = TransportError(error)]
    /\ UNCHANGED <<serverVars, clientVars, ev>>

PromptThrows(error) ==
    /\ gen.pc = "prompt"
    /\ gen' = [gen EXCEPT !.pc = "flowThrew",
                          !.invocations = @ + 1,
                          !.error = error,
                          !.thrown = TransportError(error)]
    /\ UNCHANGED <<serverVars, clientVars, ev>>

NoQuestionsMessage ==
    <<Text("The AI failed to generate any questions. Please try modifying your syllabus topics and try again.")>>
ConfigErrorMessage ==
    <<Text("[AI Config Error] The specified model is not available. Please check the model name in the AI flow.")>>
NetworkErrorMessage ==
    <<Text("Network Error: Could not connect to the AI service. Is the Genkit server running? (npm run genkit:dev)")>>
UnexpectedErrorMessage ==
    <<Text("An unexpected error occurred while generating the quiz.")>>

\* e.message?.includes('model is not found')
IncludesModelNotFound(message) ==
    \E i \in 1..Len(message) : message[i].text = "model is not found"

CaughtError_Generic(e) == UnexpectedErrorMessage

\* the error generateQuizAction returns from its catch block
CaughtError(e) ==
    IF IncludesModelNotFound(e.message) THEN ConfigErrorMessage
    ELSE IF e.cause = "UND_ERR_CONNECT_FAILED" THEN NetworkErrorMessage
    ELSE IF e.message # <<>> THEN e.message
    ELSE UnexpectedErrorMessage

\* generateQuizAction after the flow returned
GenerateQuizActionReturns ==
    /\ gen.pc = "flowReturned"
    /\ gen' = IF Len(gen.output) = 0
              THEN [gen EXCEPT !.pc = "done", !.action = "failure",
                               !.error = "noQuestions",
                               !.returnedError = NoQuestionsMessage]
              ELSE [gen EXCEPT !.pc = "done", !.action = "success",
                               !.mcqQuestions = convertedOutput(gen.output)]
    /\ UNCHANGED <<serverVars, clientVars, ev>>

\* generateQuizAction's catch block
GenerateQuizActionCatches ==
    /\ gen.pc = "flowThrew"
    /\ gen' = [gen EXCEPT !.pc = "done", !.action = "failure",
                          !.returnedError = CaughtError(gen.thrown)]
    /\ UNCHANGED <<serverVars, clientVars, ev>>

NextGen ==
    \/ \E n \in 0..MaxN : GenerateQuizAction(n)
    \/ \E response \in PromptResponses :
          \E processed \in processedQuestions(response.questions) :
             PromptMatches(response, processed)
    \/ \E response \in PromptResponses : PromptMismatches(response)
    \/ \E error \in TransportErrors : PromptThrows(error)
    \/ GenerateQuizActionReturns
    \/ GenerateQuizActionCatches

\* the user has no history, or one attempt saved earlier
InitGen ==
    /\ ev = EvIdle
    /\ clock = 0
    /\ userStats \in InitStats
    /\ stats0 = userStats
    /\ \E attempted \in {<<>>, <<QMcq>>} :
          quizHistory =
             [c \in Calls |->
                 IF c = 1 /\ attempted # <<>>
                 THEN PersistedQuiz(RequestData(Attempt(attempted, <<Str(<<"A">>)>>), 1))
                 ELSE NoHistory]
    /\ pc = [c \in Calls |-> "idle"]
    /\ quizData = [c \in Calls |-> NoQuizData]
    /\ stats = [c \in Calls |-> NoLocal]
    /\ result = [c \in Calls |-> NoResult]
    /\ step = "quiz"
    /\ score = 0
    /\ historyId = 0
    /\ session = NoSession
    /\ analysis = [i \in Calls \X Calls |-> NoAnalysis]
    /\ gen = GenIdle

SpecGen == InitGen /\ [][NextGen]_vars

\* ------------------------------------------ ResultItem over one attempt
\* answer elements, with and without surrounding blanks
Elements == {<<"A">>, <<"B">>, <<" ", "B", " ">>}
AnswerLists == SeqsUpTo(Elements, MaxLen)

\* "A, B": the elements of a list joined by a comma and a blank
CommaString(a) == Join(a, <<",", " ">>)

EvalStrings ==
    {CommaString(a) : a \in AnswerLists \ {<<>>}}
        \cup {<<>>, <<" ">>, <<" ", "A">>, <<"5">>, <<"1", "0">>,
              <<"1", "0", ".", "0", "0", "9">>, <<"1", "0", ".", "0", "1">>}

EvalNumbers ==
    {0, 5 * Scale, 10 * Scale - 11, 10 * Scale - 10, 10 * Scale,
     10 * Scale + 9, 10 * Scale + 10, 10 * Scale + 11, 11 * Scale}

\* the values a correctAnswer or a user answer may hold
EvalValues ==
    {Undefined, Null}
        \cup {Str(x) : x \in EvalStrings}
        \cup {Num(n) : n \in EvalNumbers}
        \cup {Arr(a) : a \in AnswerLists}
        \cup {Arr(<<<<"1", "0">>>>)}

EvalRanges == {[has |-> FALSE, min |-> 0, max |-> 0],
               [has |-> TRUE, min |-> 9 * Scale, max |-> 11 * Scale],
               [has |-> TRUE, min |-> 0 - Scale, max |-> Scale]}

EvalQuestions ==
    {Question("q", t, <<<<"A">>, <<"B">>>>, c, FALSE, 0, 0) :
        t \in {"MCQ", "MSQ", "Other"}, c \in EvalValues \ {Undefined, Null}}
    \cup {Question("q", "NTQ", <<>>, c, r.has, r.min, r.max) :
        c \in EvalValues \ {Undefined, Null}, r \in EvalRanges}

\* an attempt as GateAiPrep holds it: viaUI when userAnswers is the
\* index-keyed record of the quiz session (no key for an unanswered question)
EvalAttempt(viaUI, questions, answers) ==
    [viaUI |-> viaUI, questions |-> questions, userAnswers |-> answers, score |-> 0]

QNtqZero == Question("q-ntq-zero", "NTQ", <<>>, Num(0), TRUE, 0 - Scale, Scale)
QOther == Question("q-other", "Other", <<>>, Str(<<"A">>), FALSE, 0, 0)

EvalAttempts ==
    {EvalAttempt(FALSE, <<q>>, <<a>>) : q \in EvalQuestions, a \in EvalValues}
    \cup {EvalAttempt(viaUI, <<q, QMcq>>, <<a, Str(<<"A">>)>>) :
            viaUI \in BOOLEAN, q \in {QMcq, QMsq, QNtq, QNtqZero, QOther},
            a \in {Undefined, Null}}

InitEval ==
    /\ clock = 0
    /\ userStats = NewStats
    /\ stats0 = userStats
    /\ quizHistory = [c \in Calls |-> NoHistory]
    /\ pc = [c \in Calls |-> "idle"]
    /\ quizData = [c \in Calls |-> NoQuizData]
    /\ stats = [c \in Calls |-> NoLocal]
    /\ result = [c \in Calls |-> NoResult]
    /\ step = "results"
    /\ score = 0
    /\ historyId = 0
    /\ session = NoSession
    /\ analysis = [i \in Calls \X Calls |-> NoAnalysis]
    /\ gen = GenIdle
    /\ \E attempt \in EvalAttempts :
          ev = [EvIdle EXCEPT !.pc = "input", !.viaUI = attempt.viaUI,
                              !.rawQuestions = attempt.questions,
                              !.rawAnswers = attempt.userAnswers,
                              !.questions = attempt.questions,
                              !.userAnswers = attempt.userAnswers]

\* the ResultItem of every question computes isCorrect
Verdicts(questions, answers) ==
    [i \in 1..Len(questions) |-> isCorrect(questions[i], AnswerAt(answers, i))]

\* QuizResults renders the attempt just submitted
ShowResults ==
    /\ ev.pc = "input"
    /\ ev' = [ev EXCEPT !.pc = "rendered", !.path = "direct",
                        !.verdicts = Verdicts(ev.questions, ev.userAnswers)]
    /\ UNCHANGED <<serverVars, clientVars, gen>>

\* an array element that is undefined is stored as null
StoredAnswer(a) == IF a.kind = "undefined" THEN Null ELSE a

\* saveQuizHistoryAction stores the attempt
SaveAttempt ==
    /\ ev.pc = "input"
    /\ LET doc == PersistedQuiz(EvalAttempt(ev.viaUI, ev.questions, ev.userAnswers))
       IN ev' = [ev EXCEPT !.pc = "saved", !.path = "history",
                           !.questions = doc.questions,
                           !.userAnswers = [i \in 1..Len(doc.userAnswers) |->
                                               StoredAnswer(doc.userAnswers[i])]]
    /\ UNCHANGED <<serverVars, clientVars, gen>>

Filter(a) == SelectSeq(a, LAMBDA x : x # <<>>)

\* getQuizHistoryAction: userAnswersArray[index] for one question. The raw
\* strings here hold no '[', so JSON.parse never yields an array and both
\* outcomes of the try block split at commas
userAnswersArray(question, rawAnswer) ==
    IF rawAnswer.kind \in {"undefined", "null"} THEN Undefined
    ELSE IF question.type = "MCQ" THEN Str(JsString(rawAnswer))
    ELSE IF question.type = "MSQ"
         THEN IF rawAnswer.kind = "array" THEN Arr(rawAnswer.arr)
              ELSE IF rawAnswer.kind = "string"
                   THEN Arr(Filter(MapTrim(SplitComma(rawAnswer.str))))
              ELSE Arr(<<JsString(rawAnswer)>>)
    ELSE IF question.type = "NTQ"
         THEN LET num == ToNumber(rawAnswer) IN
              IF num.nan THEN Num(0) ELSE Num(num.val)
    ELSE Str(JsString(rawAnswer))

\* getQuizHistoryAction returns the stored attempt with normalised answers
GetQuizHistory ==
    /\ ev.pc = "saved"
    /\ ev' = [ev EXCEPT !.pc = "loaded",
                        !.userAnswers =
                            [i \in 1..Len(ev.questions) |->
                                userAnswersArray(ev.questions[i],
                                                 AnswerAt(ev.userAnswers, i))]]
    /\ UNCHANGED <<serverVars, clientVars, gen>>

\* QuizHistoryCard renders the loaded attempt
ShowHistory ==
    /\ ev.pc = "loaded"
    /\ ev' = [ev EXCEPT !.pc = "rendered",
                        !.verdicts = Verdicts(ev.questions, ev.userAnswers)]
    /\ UNCHANGED <<serverVars, clientVars, gen>>

NextEval ==
    \/ ShowResults
    \/ SaveAttempt
    \/ GetQuizHistory
    \/ ShowHistory

SpecEval == InitEval /\ [][NextEval]_vars

\* ------------------------------------------------------------ properties
Succeeded(c) == pc[c] = "returned" /\ result[c].success
SaveReturns(c) == pc[c] = "statsSave" /\ pc'[c] = "returned" /\ result'[c].success
NoDuplicates(seq) == \A i, j \in 1..Len(seq) : seq[i] = seq[j] => i = j

RECURSIVE SumOf(_, _)
SumOf(f, S) ==
    IF S = {} THEN 0
    ELSE LET x == CHOOSE y \in S : TRUE IN f[x] + SumOf(f, S \ {x})

\* C3: the score that is persisted, and the points a save earns, are
\* determined by the attempt's questions and answers alone: two saved requests
\* with identical questions and userAnswers have the same persisted score and
\* the same points increment, whatever score the client supplied.
C3_ScoreNotFromClient ==
    \A c1, c2 \in Calls :
        ( /\ quizHistory[c1].exists /\ quizHistory[c2].exists
          /\ quizData[c1].questions = quizData[c2].questions
          /\ quizData[c1].userAnswers = quizData[c2].userAnswers )
        => /\ quizHistory[c1].score = quizHistory[c2].score
           /\ ( pc[c1] = "statsSave" /\ pc[c2] = "statsSave" )
                => stats[c1].doc.points - stats[c1].read.points
                     = stats[c2].doc.points - stats[c2].read.points

\* C5: when UserStats.findOne resolves, the handler's streak transition is:
\* lastQuizDate one calendar day before today -> currentStreak + 1; same
\* day -> unchanged; no lastQuizDate or any other day -> 1; and lastQuizDate
\* becomes today.
C5_StreakTransition ==
    [][\A c \in Calls :
          (pc[c] = "findOne" /\ pc'[c] = "statsSave") =>
             LET last == userStats.lastQuizDate
                 cur == userStats.currentStreak
                 after == stats'[c].doc
             IN /\ (userStats.exists /\ last = clock - 1) => after.currentStreak = cur + 1
                /\ (userStats.exists /\ last = clock) => after.currentStreak = cur
                /\ (~userStats.exists \/ last \notin {clock - 1, clock})
                      => after.currentStreak = 1
                /\ after.lastQuizDate = clock]_vars

C5_Witness ==
    \E c \in Calls :
        /\ Succeeded(c)
        /\ stats[c].read.exists
        /\ stats[c].read.lastQuizDate = stats[c].today - 1
        /\ userStats.currentStreak = stats[c].read.currentStreak + 1
        /\ userStats.lastQuizDate = stats[c].today

\* C6: every persisted UserStats state has longestStreak >= currentStreak.
C6_LongestAtLeastCurrent == userStats.longestStreak >= userStats.currentStreak

C6_Witness ==
    /\ ~stats0.exists
    /\ userStats.exists
    /\ userStats.currentStreak = 2
    /\ userStats.longestStreak = 2

C8_BadgesSetAppendOnly ==
    [][ /\ NoDuplicates(userStats'.badges)
        /\ \A i \in 1..Len(userStats.badges) :
              SeqIncludes(userStats'.badges, userStats.badges[i])
        /\ \A c \in Calls :
              SaveReturns(c) =>
                 /\ userStats'.points > 1000
                       => SeqIncludes(userStats'.badges, "Point Collector")
                 /\ userStats'.currentStreak >= 5
                       => SeqIncludes(userStats'.badges, "5-Day Streak") ]_vars

\* two saves in a row that both qualify for both badges
C8_Witness ==
    /\ stats0.exists /\ stats0.badges = <<>>
    /\ \E c1, c2 \in Calls :
          /\ c1 # c2
          /\ Succeeded(c1) /\ Succeeded(c2)
          /\ stats[c1].doc.points > 1000 /\ stats[c2].doc.points > 1000
          /\ stats[c1].doc.currentStreak >= 5 /\ stats[c2].doc.currentStreak >= 5
    /\ Len(userStats.badges) = 2

\* C9: no update is lost: once every call that was started has returned, the
\* points have increased by 10 times the sum of the scores of the calls that
\* reported success.
C9_NoLostUpdate ==
    Quiet =>
       userStats.points
          = stats0.points
              + 10 * SumOf([c \in Calls |-> quizData[c].score],
                           {c \in Calls : Succeeded(c)})

\* C4: the score handleQuizSubmit computes for the submitted attempt equals
\* the number of questions whose answer ResultItem.isCorrect judges correct.
C4_ScoreMatchesEvaluator ==
    (step = "results" /\ session.call # 0) =>
        score = EvaluatorScore(quizData[session.call].questions,
                               quizData[session.call].userAnswers)

GamificationSaved(c) == pc[c] \in {"returned", "done"} /\ result[c].success
\* C10: for each attempt the gamification update precedes the persistence of
\* the attempt (so a persisted attempt has its UserStats update saved), and
\* the analyzer is invoked for an attempt only after that attempt has been
\* persisted and its identifier returned, and with that identifier.
C10_LifecycleOrder ==
    \A c \in Calls :
        /\ quizHistory[c].exists => GamificationSaved(c)
        /\ \A target \in Calls :
              analysis[<<target, c>>].status # "none" =>
                 /\ target = c
                 /\ quizHistory[c].exists
                 /\ pc[c] = "done" /\ result[c].success

\* the second half of C10 alone
AnalyzerAfterPersistence ==
    \A c, target \in Calls :
        analysis[<<target, c>>].status # "none" =>
           target = c /\ quizHistory[c].exists /\ pc[c] = "done" /\ result[c].success

\* C1: the capability is invoked once per attempt and at most maxRetries (5)
\* times: a response with the requested count ends the loop at once, a
\* response with another count leads to the next invocation while fewer than
\* 5 were made, and the 5th such response raises GenerationFailed.
C1_RetryCount ==
    [][ /\ gen'.invocations <= 5
        /\ (gen.pc = "prompt" /\ gen'.invocations = gen.invocations + 1
               /\ gen'.error \notin TransportErrors) =>
              /\ gen'.invocations = gen.attempt
              /\ gen'.lastCount = gen.numberOfQuestions
                    => gen'.pc = "flowReturned"
              /\ (gen'.lastCount # gen.numberOfQuestions /\ gen'.invocations < 5)
                    => gen'.pc = "prompt"
              /\ (gen'.lastCount # gen.numberOfQuestions /\ gen'.invocations = 5)
                    => gen'.pc = "flowThrew" /\ gen'.error = "GenerationFailed"
        /\ gen.pc # "prompt" => gen'.invocations = gen.invocations ]_vars

\* five responses of one question fewer than requested, then GenerationFailed
C1_Witness ==
    /\ gen.pc = "flowThrew"
    /\ gen.error = "GenerationFailed"
    /\ gen.invocations = 5
    /\ gen.lastCount = gen.numberOfQuestions - 1

\* C2: a successful return of the flow, and of generateQuizAction on top of
\* it, carries exactly numberOfQuestions questions.
C2_ExactCount ==
    /\ gen.pc = "flowReturned" => Len(gen.output) = gen.numberOfQuestions
    /\ gen.action = "success" => Len(gen.mcqQuestions) = gen.numberOfQuestions

C2_Witness ==
    /\ gen.action = "success"
    /\ gen.numberOfQuestions = 2
    /\ gen.invocations > 1
    /\ \E i \in 1..2 : gen.mcqQuestions[i].type = "NTQ"

\* one question with one answer has been shown on the given path
ShownOne(path) ==
    /\ ev.pc = "rendered"
    /\ ev.path = path
    /\ Len(ev.rawQuestions) = 1

TrimmedSet(a) == {Trim(a[i]) : i \in 1..Len(a)}

\* C11: for an MSQ question with list answers the verdict is true exactly
\* when the set of trimmed user-answer elements equals the set of trimmed
\* correct-answer elements, lists with repeated elements included.
C11_MsqSetEquality ==
    (/\ ShownOne("direct")
     /\ ev.rawQuestions[1].type = "MSQ"
     /\ ev.rawAnswers[1].kind = "array"
     /\ ev.rawQuestions[1].correctAnswer.kind = "array") =>
        (ev.verdicts[1] <=>
            TrimmedSet(ev.rawAnswers[1].arr)
                = TrimmedSet(ev.rawQuestions[1].correctAnswer.arr))

\* C12: the MSQ verdict for user answer A against correct answer B equals
\* the verdict for user answer B against correct answer A.
C12_MsqSymmetric ==
    (/\ ShownOne("direct")
     /\ ev.rawQuestions[1].type = "MSQ"
     /\ ev.rawAnswers[1].kind = "array"
     /\ ev.rawQuestions[1].correctAnswer.kind = "array") =>
        (ev.verdicts[1] <=>
            isCorrect([ev.rawQuestions[1] EXCEPT !.correctAnswer = ev.rawAnswers[1]],
                      ev.rawQuestions[1].correctAnswer))

\* {B, A} against {A, B} has been judged correct
C12_Witness ==
    /\ ShownOne("direct")
    /\ ev.rawQuestions[1].type = "MSQ"
    /\ ev.rawAnswers[1] = Arr(<<<<"B">>, <<"A">>>>)
    /\ ev.rawQuestions[1].correctAnswer = Arr(<<<<"A">>, <<"B">>>>)
    /\ ev.verdicts[1]

\* a raw answer that reads as a number: a number, or a non-blank numeric string
NumericAnswer(a) ==
    \/ a.kind = "number"
    \/ a.kind = "string" /\ Trim(a.str) # <<>> /\ ~StringToNumber(a.str).nan

\* C13: for an NTQ question (numeric correctAnswer c) and a numeric user
\* answer u the verdict is true exactly when min <= u <= max, with
\* {min, max} the numericRange, or c - 0.01 and c + 0.01 without one.
C13_NtqInclusiveWindow ==
    (/\ ShownOne("direct")
     /\ ev.rawQuestions[1].type = "NTQ"
     /\ ev.rawQuestions[1].correctAnswer.kind = "number"
     /\ NumericAnswer(ev.rawAnswers[1])) =>
        LET q == ev.rawQuestions[1]
            u == IF ev.rawAnswers[1].kind = "number" THEN ev.rawAnswers[1].num
                 ELSE StringToNumber(ev.rawAnswers[1].str).val
            min == IF q.hasRange THEN q.numericRange.min
                   ELSE q.correctAnswer.num - Scale \div 100
            max == IF q.hasRange THEN q.numericRange.max
                   ELSE q.correctAnswer.num + Scale \div 100
        IN ev.verdicts[1] <=> (min <= u /\ u <= max)

\* answer 11 against the range 9..11 (correctAnswer 10) is judged correct
C13_Witness ==
    /\ ShownOne("direct")
    /\ ev.rawQuestions[1].type = "NTQ"
    /\ ev.rawQuestions[1].hasRange
    /\ ev.rawQuestions[1].numericRange.max = 11 * Scale
    /\ ev.rawQuestions[1].correctAnswer = Num(10 * Scale)
    /\ ev.rawAnswers[1] = Num(11 * Scale)
    /\ ev.verdicts[1]

\* NTQ question with correctAnswer 10 and no numericRange
TenNoRange ==
    /\ ShownOne("direct")
    /\ ev.rawQuestions[1].type = "NTQ"
    /\ ev.rawQuestions[1].correctAnswer = Num(10 * Scale)
    /\ ~ev.rawQuestions[1].hasRange

\* C14 (as stated): with correctAnswer 10 and no numericRange, answer 10.01
\* is judged incorrect and answer 10.009 is judged correct.
C14_BoundaryExcluded ==
    TenNoRange =>
        /\ ev.rawAnswers[1] = Num(10 * Scale + 10) => ~ev.verdicts[1]
        /\ ev.rawAnswers[1] = Num(10 * Scale + 9) => ev.verdicts[1]

\* C14 (amended): with correctAnswer 10 and no numericRange, answers 10.009
\* and 10.01 are judged correct (the bound is inclusive) and answer 10.011 is
\* judged incorrect.
C14_BoundaryIncluded ==
    TenNoRange =>
        /\ ev.rawAnswers[1] = Num(10 * Scale + 10) => ev.verdicts[1]
        /\ ev.rawAnswers[1] = Num(10 * Scale + 9) => ev.verdicts[1]
        /\ ev.rawAnswers[1] = Num(10 * Scale + 11) => ~ev.verdicts[1]

C14_Witness ==
    /\ TenNoRange
    /\ ev.rawAnswers[1] = Num(10 * Scale + 10)
    /\ ev.verdicts[1]

Unanswered(a) == a.kind \in {"undefined", "null"}

\* C15: an unanswered question (answer undefined or null) of any type is
\* judged incorrect, when the attempt is shown directly and when it is shown
\* after saveQuizHistoryAction and getQuizHistoryAction.
C15_UnansweredIncorrect ==
    ev.pc = "rendered" =>
        \A i \in 1..Len(ev.rawQuestions) :
            Unanswered(ev.rawAnswers[i]) => ~ev.verdicts[i]

\* an attempt of the quiz session whose first question was left unanswered
\* has been shown from the history
C15_Witness ==
    /\ ev.pc = "rendered"
    /\ ev.path = "history"
    /\ ev.viaUI
    /\ Len(ev.rawQuestions) = 2
    /\ ev.rawAnswers[1] = Undefined
    /\ ev.userAnswers[1] # Undefined
    /\ ~ev.verdicts[1]

\* the declared type disagrees with the shape of correctAnswer or of the
\* raw answer (a string is a raw form of every type's answer)
ShapeDisagrees(q, a) ==
    \/ q.type = "MCQ" /\ (q.correctAnswer.kind # "string" \/ a.kind # "string")
    \/ q.type = "MSQ" /\ (q.correctAnswer.kind # "array" \/ a.kind = "number")
    \/ q.type = "NTQ" /\ (q.correctAnswer.kind # "number" \/ a.kind = "array")

\* C16: when the declared type disagrees with the shape of correctAnswer or
\* of the raw answer, the verdict is false.
C16_ShapeMismatchIncorrect ==
    (ShownOne("direct") /\ ShapeDisagrees(ev.rawQuestions[1], ev.rawAnswers[1]))
        => ~ev.verdicts[1]

\* C17: for an MCQ question the raw answer is converted to a string and
\* trimmed, and the verdict is true exactly when it equals the trimmed
\* correctAnswer.
C17_McqCoercedEquality ==
    (/\ ShownOne("direct")
     /\ ev.rawQuestions[1].type = "MCQ"
     /\ ev.rawQuestions[1].correctAnswer.kind = "string"
     /\ ev.rawAnswers[1].kind \in {"string", "number"}) =>
        (ev.verdicts[1] <=>
            Trim(JsString(ev.rawAnswers[1])) = Trim(ev.rawQuestions[1].correctAnswer.str))

\* C18: for an NTQ question a raw answer that is not numeric is judged
\* incorrect, shown directly or from the history.
C18_NonNumericIncorrect ==
    (/\ ev.pc = "rendered"
     /\ Len(ev.rawQuestions) = 1
     /\ ev.rawQuestions[1].type = "NTQ"
     /\ ev.rawQuestions[1].correctAnswer.kind = "number"
     /\ ~Unanswered(ev.rawAnswers[1])
     /\ ~NumericAnswer(ev.rawAnswers[1])) => ~ev.verdicts[1]

\* C19: for an MSQ question the comma-delimited string of a list and the
\* list itself (elements untrimmed) normalise to the same trimmed elements
\* and get the same verdict; a string without a comma is a one-element list.
C19_CommaStringAsList ==
    (ShownOne("direct") /\ ev.rawQuestions[1].type = "MSQ") =>
        LET q == ev.rawQuestions[1]
            a == ev.rawAnswers[1]
        IN /\ (a.kind = "array" /\ a.arr # <<>>) =>
                 /\ MsqArray(Str(CommaString(a.arr)))
                        = [i \in 1..Len(a.arr) |-> Trim(a.arr[i])]
                 /\ MsqArray(a) = [i \in 1..Len(a.arr) |-> Trim(a.arr[i])]
                 /\ ev.verdicts[1] <=> isCorrect(q, Str(CommaString(a.arr)))
           /\ (a.kind = "string" /\ ~IncludesComma(a.str)) =>
                 /\ MsqArray(a) = <<Trim(a.str)>>
                 /\ ev.verdicts[1] <=> isCorrect(q, Arr(<<a.str>>))

\* the list ["A", " B "] against the correct answer ["A", "B"]
C19_Witness ==
    /\ ShownOne("direct")
    /\ ev.rawQuestions[1].type = "MSQ"
    /\ ev.rawQuestions[1].correctAnswer = Arr(<<<<"A">>, <<"B">>>>)
    /\ ev.rawAnswers[1] = Arr(<<<<"A">>, <<" ", "B", " ">>>>)
    /\ ev.verdicts[1]

\* the number of times x occurs in array
Occurrences(array, x) == Cardinality({i \in 1..Len(array) : array[i] = x})

SameElements(a, b) ==
    /\ Len(a) = Len(b)
    /\ \A i \in 1..Len(a) : Occurrences(a, a[i]) = Occurrences(b, a[i])

\* C20: the flow returns each MCQ / MSQ question with a permutation of its
\* options and with correctAnswer, text, type and position unchanged, and
\* each NTQ question unchanged; a correctAnswer found among the options
\* before is found among them afterwards and is judged as before.
C20_ShufflePreserves ==
    gen.pc = "flowReturned" =>
        /\ Len(gen.output) = Len(gen.response)
        /\ \A i \in 1..Len(gen.response) :
              LET before == gen.response[i]
                  after == gen.output[i]
              IN /\ after.question = before.question
                 /\ after.type = before.type
                 /\ after.correctAnswer = before.correctAnswer
                 /\ after.numericRange = before.numericRange
                 /\ SameElements(after.options, before.options)
                 /\ before.type = "NTQ" => after = before
                 /\ (before.correctAnswer.kind = "string"
                        /\ SeqIncludes(before.options, before.correctAnswer.str))
                       => SeqIncludes(after.options, after.correctAnswer.str)
                 /\ isCorrect(after, before.correctAnswer)
                       = isCorrect(before, before.correctAnswer)

\* a three-option question came back with its options in another order
C20_Witness ==
    /\ gen.pc = "flowReturned"
    /\ \E i \in 1..Len(gen.response) :
          /\ Len(gen.response[i].options) = 3
          /\ gen.output[i].options # gen.response[i].options

\* ------------------------------------- one attempt, from submission to analysis
\* the attempts of the pool and one whose two questions have the same text
AnalysisAttempts ==
    AttemptPool \cup {Attempt(<<QMcq, QMcq>>, <<Str(<<"A">>), Str(<<"B">>)>>)}

\* errorAnalysis arrays of the capability: up to MaxN entries, each naming a
\* question of the payload or another text, with any errorType of the enum
ErrorAnalyses(qr) ==
    SeqsUpTo([question : {qr[i].question : i \in 1..Len(qr)} \cup {"q-other"},
              errorType : ErrorTypes],
             MaxN)

NextAnalysis ==
    \/ \E attempt \in AnalysisAttempts : HandleQuizSubmit(attempt)
    \/ \E c \in Calls : QuizHistorySave(c)
    \/ \E c \in Calls : FindOneStats(c)
    \/ \E c \in Calls : StatsSave(c)
    \/ \E c \in Calls : ServerThrow(c)
    \/ \E c \in Calls : AddQuizToHistoryReturn(c)
    \/ AnalyzeEffect
    \/ \E target \in Calls, sub \in Calls :
          \E errorAnalysis \in ErrorAnalyses(quizResults(quizData[sub])) :
             AnalyzeReturns(target, sub, errorAnalysis)
    \/ \E target \in Calls, sub \in Calls : AnalyzeThrows(target, sub)

SpecAnalysis == InitClient /\ [][NextAnalysis]_vars

\* the payload question i has an entry in the returned errorAnalysis
HasEntry(data, qr, i) ==
    \E k \in 1..Len(data) : data[k].question = qr[i].question

\* C25: after analyzePerformanceAction saved its merge, every question with
\* isCorrect true is tagged Correct, every incorrect question with a matching
\* entry carries the errorType of an entry with its text, the three tallies
\* sum to the number of incorrect questions with a matching entry, and each
\* tally is the number of such questions carrying its errorType.
C25_MergeByText ==
    \A target, sub \in Calls :
        (analysis[<<target, sub>>].status = "saved" /\ quizHistory[target].exists) =>
            LET qr == quizResults(quizData[sub])
                data == analysis[<<target, sub>>].data
                doc == quizHistory[target]
                matched == {i \in 1..Len(qr) : ~qr[i].isCorrect /\ HasEntry(data, qr, i)}
            IN  /\ Len(doc.errorTypes) = Len(qr)
                /\ \A i \in 1..Len(qr) : qr[i].isCorrect => doc.errorTypes[i] = "Correct"
                /\ \A i \in matched :
                      \E k \in 1..Len(data) :
                         /\ data[k].question = qr[i].question
                         /\ doc.errorTypes[i] = data[k].errorType
                /\ doc.errorTypeCounts.conceptual + doc.errorTypeCounts.careless
                     + doc.errorTypeCounts.misinterpretation = Cardinality(matched)
                /\ doc.errorTypeCounts.conceptual =
                     Cardinality({i \in matched : doc.errorTypes[i] = "Conceptual"})
                /\ doc.errorTypeCounts.careless =
                     Cardinality({i \in matched : doc.errorTypes[i] = "Careless Slip"})
                /\ doc.errorTypeCounts.misinterpretation =
                     Cardinality({i \in matched :
                                     doc.errorTypes[i] = "Question Misinterpretation"})

\* a correct answer, a wrong answer the analyzer classified (with an entry
\* for the correct one too) and a wrong answer it left out
C25_Witness ==
    /\ analysis[<<1, 1>>].status = "saved"
    /\ Len(quizData[1].questions) = 3
    /\ quizResults(quizData[1])[1].isCorrect
    /\ ~quizResults(quizData[1])[3].isCorrect
    /\ analysis[<<1, 1>>].data =
          <<[question |-> "q-mcq", errorType |-> "Careless Slip"],
            [question |-> "q-msq", errorType |-> "Conceptual"]>>
    /\ quizHistory[1].errorTypes[2] = "Conceptual"
    /\ quizHistory[1].errorTypeCounts.conceptual = 1

\* C26: when analyzePerformanceAction fails, the persisted attempt is as it
\* was saved and none of its questions carries an error classification.
C26_FailureLeavesNoClassification ==
    \A c \in Calls :
        (analysis[<<c, c>>].status = "failed" /\ quizHistory[c].exists) =>
            /\ quizHistory[c] = PersistedQuiz(quizData[c])
            /\ \A i \in 1..Len(quizHistory[c].errorTypes) :
                  quizHistory[c].errorTypes[i] = "undefined"

\* C29: the update of analyzePerformanceAction leaves the stored questions'
\* fields other than errorType, their order, and the attempt's score and
\* userAnswers as they were.
C29_OnlyClassificationChanges ==
    [][ \A target, sub \in Calls :
           ( /\ analysis[<<target, sub>>].status = "invoked"
             /\ analysis'[<<target, sub>>].status = "saved"
             /\ quizHistory[target].exists ) =>
              /\ quizHistory'[target].questions = quizHistory[target].questions
              /\ quizHistory'[target].userAnswers = quizHistory[target].userAnswers
              /\ quizHistory'[target].score = quizHistory[target].score ]_vars

\* C30: in a persisted attempt no question whose answer the evaluator judges
\* incorrect carries the errorType 'Correct'.
C30_WrongNeverTaggedCorrect ==
    \A c \in Calls :
        quizHistory[c].exists =>
            \A i \in 1..Len(quizData[c].questions) :
                ~isCorrect(quizData[c].questions[i], AnswerAt(quizData[c].userAnswers, i))
                    => quizHistory[c].errorTypes[i] # "Correct"

\* C21: a question set the flow returns holds no two questions with the same
\* text and no question whose text is among the previously asked questions.
C21_UniqueAndExcluded ==
    gen.pc = "flowReturned" =>
        /\ \A i, j \in 1..Len(gen.output) :
              gen.output[i].question = gen.output[j].question => i = j
        /\ \A i \in 1..Len(gen.output) :
              gen.output[i].question \notin gen.previouslyAskedQuestions

\* C22: the error thrown when the retries are exhausted carries the question
\* count of the last attempt and the requested count.
C22_ErrorCarriesCounts ==
    (gen.pc = "flowThrew" /\ gen.error = "GenerationFailed") =>
        /\ \E i \in 1..Len(gen.thrown.message) :
              gen.thrown.message[i] = Number(gen.numberOfQuestions)
        /\ \E i \in 1..Len(gen.thrown.message) :
              gen.thrown.message[i] = Number(gen.lastCount)

\* C23: a prompt call that fails with a transport error ends the flow with
\* that error at once, whatever the attempt, and the capability is not
\* invoked again for the request.
C23_TransportFailsFast ==
    [][ /\ (gen.pc = "prompt" /\ gen'.error \in TransportErrors) =>
              /\ gen'.pc = "flowThrew"
              /\ gen'.thrown = TransportError(gen'.error)
              /\ gen'.invocations = gen.invocations + 1
        /\ gen.error \in TransportErrors => gen'.invocations = gen.invocations ]_vars

\* the second call was unreachable: the flow ended with three attempts left
C23_Witness ==
    /\ gen.pc = "flowThrew"
    /\ gen.error = "connectFailed"
    /\ gen.attempt = 2
    /\ gen.invocations = 2

\* C24: after retry exhaustion generateQuizAction returns the flow's own
\* message, which differs from what it returns when the capability could not
\* be reached; both return failure and no question data.
C24_DistinctFailures ==
    gen.pc = "done" =>
        /\ gen.error = "GenerationFailed" =>
              /\ gen.action = "failure"
              /\ gen.mcqQuestions = <<>>
              /\ gen.returnedError = FailedMessage(gen.numberOfQuestions)
              /\ gen.returnedError # NetworkErrorMessage
        /\ gen.error = "connectFailed" =>
              /\ gen.action = "failure"
              /\ gen.mcqQuestions = <<>>
              /\ gen.returnedError = NetworkErrorMessage
              /\ \A n \in 0..(MaxN + 1) : gen.returnedError # FailedMessage(n)

C24_Witness ==
    /\ gen.pc = "done"
    /\ gen.error = "GenerationFailed"
    /\ gen.numberOfQuestions = 2
    /\ gen.returnedError = FailedMessage(2)

\* C27: an attempt read back by getQuizHistoryAction has, at every question
\* index, the type-normalised answer the user gave to that question, and
\* nothing at an index the user left unanswered.
C27_AnswersStayAligned ==
    ev.pc = "loaded" =>
        /\ Len(ev.userAnswers) = Len(ev.rawQuestions)
        /\ \A i \in 1..Len(ev.rawQuestions) :
              LET given == AnswerAt(ev.rawAnswers, i) IN
              IF given.kind \in {"undefined", "null"}
              THEN ev.userAnswers[i] = Undefined
              ELSE ev.userAnswers[i] \in {userAnswersArray(ev.rawQuestions[i], given),
                                          userAnswersArray(ev.questions[i], given)}

\* C28: saveQuizHistoryAction is all-or-nothing: a call that returned success
\* false has persisted no QuizHistory record, and a call that returned success
\* true has persisted the record and the user's statistics.
C28_AllOrNothing ==
    \A c \in Calls :
        pc[c] \in {"returned", "done"} =>
            /\ result[c].success => (quizHistory[c].exists /\ userStats.exists)
            /\ ~result[c].success => ~quizHistory[c].exists

====
